---- MODULE Spec2Model ----
(***************************************************************************)
(* arping-go: one invocation of a public operation of package arping       *)
(* (Ping, PingOverIfaceByName, PingOverIface, GratuitousArp,               *)
(* GratuitousArpOverIfaceByName, GratuitousArpOverIface), called directly  *)
(* or through cmd/arping/main.go.  The calling flow, the listening         *)
(* goroutine of PingOverIface, the unbuffered pingResultChan, the          *)
(* time.After timer of the select loop and the raw socket (initialize,     *)
(* send, receive, deinitialize) are modelled; the socket is the            *)
(* environment and answers nondeterministically.                           *)
(***************************************************************************)
EXTENDS Integers, Sequences, FiniteSets, TLC

\* ------------------------------------------------------------------ bounds
\* Frames (or errors) the socket delivers to receive(); later calls block.
MaxFrames == 2

\* ------------------------------------------------------- values and errors
NoErr == "nil"
ErrTimeout == "timeout"
ErrInvalidIP == "not a valid v4 Address"
ErrNoIface == "interface error"
ErrNoSrcIP == "no source ip"
ErrOpen == "initialize failed"
ErrSend == "send failed"
ErrReceive == "receive failed"

NilMac == "nil"
BroadcastMac == "ff:ff:ff:ff:ff:ff"
IfaceMac == "m0"
ReplyMacs == {"m1", "m2"}

IPv4len == 4

\* net.IP values: a byte length, the IPv4 address carried (if any) and
\* whether a 16-byte value is an IPv4-mapped one.
NilIP == [len |-> 0, addr |-> "none", v4in6 |-> FALSE]
TargetIP4 == [len |-> IPv4len, addr |-> "T", v4in6 |-> FALSE]
TargetIP16 == [len |-> 16, addr |-> "T", v4in6 |-> TRUE]
IP6 == [len |-> 16, addr |-> "none", v4in6 |-> FALSE]
BadIP == [len |-> 5, addr |-> "none", v4in6 |-> FALSE]
LocalIP == [len |-> IPv4len, addr |-> "S", v4in6 |-> FALSE]
IPs == {NilIP, TargetIP4, IP6, BadIP}
\* what net.ParseIP can return: nil, or a 16-byte value
ParsedIPs == {NilIP, TargetIP16, IP6}

\* net.IP.To4: the 4-byte form of an IPv4 address, nil otherwise
To4(ip) ==
    IF ip.len = IPv4len THEN ip
    ELSE IF ip.len = 16 /\ ip.v4in6
         THEN [len |-> IPv4len, addr |-> ip.addr, v4in6 |-> FALSE]
         ELSE NilIP

validateIPNever(ip) == NoErr
validateIP(ip) == IF To4(ip).len # IPv4len THEN ErrInvalidIP ELSE NoErr

\* ------------------------------------------------------------- operations
PingOps == {"Ping", "PingOverIfaceByName", "PingOverIface"}
GratuitousOps == {"GratuitousArp", "GratuitousArpOverIfaceByName",
                  "GratuitousArpOverIface"}
Ops == PingOps \cup GratuitousOps
WrapperOps == {"Ping", "PingOverIfaceByName", "GratuitousArp",
               "GratuitousArpOverIfaceByName"}
\* the operations cmd/arping/main.go calls
CliOp(gratuitous, ifaceGiven) ==
    IF gratuitous
    THEN IF ifaceGiven THEN "GratuitousArpOverIfaceByName" ELSE "GratuitousArp"
    ELSE IF ifaceGiven THEN "PingOverIfaceByName" ELSE "Ping"

\* ------------------------------------------------------------- ARP frames
Opers == {"request", "reply"}
newArpRequest(srcMac, srcIP, dstMac, dstIP) ==
    [ethDst |-> dstMac, oper |-> "request", sha |-> srcMac,
     spa |-> To4(srcIP).addr, tpa |-> To4(dstIP).addr]
NoFrame == [ethDst |-> NilMac, oper |-> "none", sha |-> NilMac,
            spa |-> "none", tpa |-> "none"]
\* frames receive() can return
Frames == [ethDst : {IfaceMac}, oper : Opers, sha : ReplyMacs,
           spa : {"T", "X"}, tpa : {"S", "X"}]
IsResponseOf(response, req) ==
    /\ response.oper = "reply"
    /\ req.spa = response.tpa
    /\ req.tpa = response.spa
SenderMac(frame) == frame.sha

PingRequest(srcMac, srcIP, dstIP) ==
    newArpRequest(srcMac, srcIP, BroadcastMac, dstIP)
GratuitousRequestLocalSender(srcMac, srcIP) ==
    newArpRequest(srcMac, LocalIP, BroadcastMac, srcIP)
GratuitousRequest(srcMac, srcIP) ==
    newArpRequest(srcMac, srcIP, BroadcastMac, srcIP)

\* ------------------------------------------------------- results, channel
Result(mac, duration) == [HwAddr |-> mac, Duration |-> duration]
PingResult(mac, duration, err) == [mac |-> mac, duration |-> duration, err |-> err]
NoMsg == PingResult(NilMac, 0, NoErr)
Return(rs, err) == [results |-> rs, err |-> err]
NoReturn == Return(<<>>, "pending")

AppendResultFront(rs, pingResult) ==
    <<Result(pingResult.mac, pingResult.duration)>> \o rs
AppendResult(rs, pingResult) ==
    Append(rs, Result(pingResult.mac, pingResult.duration))

TimerNeverFires(t) == t < 0
TimerAlwaysFired(t) == t >= 0
TimerFired(t) == t = 0

TimeoutReturnUnchecked(rs) == Return(rs, NoErr)
TimeoutReturn(rs) ==
    IF Len(rs) = 0 THEN Return(<<>>, ErrTimeout) ELSE Return(rs, NoErr)

GratuitousReturn(err) == Return(<<>>, err)

ExitCode(err) ==
    IF err = ErrTimeout THEN 1 ELSE IF err # NoErr THEN 2 ELSE 0

VARIABLES
    pc,          \* position of the calling flow
    caller,      \* "lib": the operation is called directly; "cli": by main
    op,          \* the public operation invoked
    ip,          \* its address argument (dstIP or srcIP)
    ret,         \* what the operation returned
    exitCode,    \* the code cmd/arping passed to os.Exit: <<>> before, <<c>> after
    timeout,     \* package variable timeout
    timer,       \* ticks left on the pending time.After channel
    now,         \* ticks since the select loop was entered
    firstPeriod, \* period of the time.After armed on entering the loop
    running,     \* the flag shared with the listening goroutine
    results,     \* results accumulated by the select loop
    lpc,         \* position of the listening goroutine
    msg,         \* PingResult the listener is sending on pingResultChan
    response,    \* the listener's local `response` of this loop iteration
    request,     \* the request frame built for this invocation
    sendTime,    \* sendTime returned by sock.send
    sent,        \* frames handed to sock.send, in order
    sendErr,     \* what the last sock.send returned
    nInit,       \* calls of initialize
    nRecv,       \* calls of sock.receive started
    nDeinit,     \* calls of sock.deinitialize
    sockErr,     \* the error sock.send or sock.receive returned to the listener
    matched      \* PingResults of the frames the listener correlated, in order

vars == <<pc, caller, op, ip, ret, exitCode, timeout, timer, now, firstPeriod,
          running, results, lpc, msg, response, request, sendTime, sent, sendErr,
          nInit, nRecv, nDeinit, sockErr, matched>>

mainVars == <<pc, ret, results, running>>
callVars == <<caller, op, ip>>
clockVars == <<timer, now, firstPeriod>>
listenerVars == <<lpc, msg, response, sendTime, matched>>
sockVars == <<sent, sendErr, nInit, nRecv, nDeinit, sockErr>>

\* the timeout periods configured, in clock ticks
Timeouts == {2, 3}

Init ==
    /\ pc = "idle"
    /\ caller = "lib"
    /\ op = "Ping"
    /\ ip = NilIP
    /\ ret = NoReturn
    /\ exitCode = <<>>
    /\ timeout \in Timeouts
    /\ timer = 0
    /\ now = 0
    /\ firstPeriod = 0
    /\ running = FALSE
    /\ results = <<>>
    /\ lpc = "none"
    /\ msg = NoMsg
    /\ response = NoFrame
    /\ request = NoFrame
    /\ sendTime = 0
    /\ sent = <<>>
    /\ sendErr = NoErr
    /\ nInit = 0
    /\ nRecv = 0
    /\ nDeinit = 0
    /\ sockErr = NoErr
    /\ matched = <<>>

\* --------------------------------------------------------- the entry points
\* A program calls a public operation of the package.
Call(o, a) ==
    /\ pc = "idle"
    /\ caller' = "lib"
    /\ op' = o
    /\ ip' = a
    /\ pc' = IF o \in WrapperOps THEN "wrapper" ELSE "inner"
    /\ UNCHANGED <<ret, exitCode, timeout, results, running, request>>
    /\ UNCHANGED <<clockVars, listenerVars, sockVars>>

\* cmd/arping main up to the library call: -h and a wrong argument count
\* print the help and exit 2; otherwise SetTimeout(*timeoutFlag) and the
\* operation the flags select, on net.ParseIP(flag.Arg(0)).
CliMain(help, nargs, gratuitous, ifaceGiven, t, a) ==
    /\ pc = "idle"
    /\ caller' = "cli"
    /\ IF help
       THEN /\ pc' = "exited"
            /\ exitCode' = <<2>>
            /\ UNCHANGED <<timeout, op, ip>>
       ELSE /\ timeout' = t
            /\ IF nargs # 1
               THEN /\ pc' = "exited"
                    /\ exitCode' = <<2>>
                    /\ UNCHANGED <<op, ip>>
               ELSE /\ op' = CliOp(gratuitous, ifaceGiven)
                    /\ ip' = a
                    /\ pc' = "wrapper"
                    /\ UNCHANGED exitCode
    /\ UNCHANGED <<ret, results, running, request>>
    /\ UNCHANGED <<clockVars, listenerVars, sockVars>>

\* SetTimeout, called by another goroutine of the program while the
\* invocation waits in its select loop (an earlier call is a different
\* initial timeout).
SetTimeout(t) ==
    /\ caller = "lib"
    /\ pc = "select"
    /\ timeout # t
    /\ timeout' = t
    /\ UNCHANGED <<mainVars, callVars, exitCode, request>>
    /\ UNCHANGED <<clockVars, listenerVars, sockVars>>

\* Ping, PingOverIfaceByName, GratuitousArp, GratuitousArpOverIfaceByName:
\* validateIP first.
WrapperValidate ==
    /\ pc = "wrapper"
    /\ IF validateIP(ip) # NoErr
       THEN /\ pc' = "returned"
            /\ ret' = Return(<<>>, validateIP(ip))
       ELSE /\ pc' = "resolve"
            /\ UNCHANGED ret
    /\ UNCHANGED <<callVars, exitCode, timeout, results, running, request>>
    /\ UNCHANGED <<clockVars, listenerVars, sockVars>>

\* findUsableInterfaceForNetwork / net.InterfaceByName
ResolveIface(ok) ==
    /\ pc = "resolve"
    /\ IF ok
       THEN /\ pc' = "inner"
            /\ UNCHANGED ret
       ELSE /\ pc' = "returned"
            /\ ret' = Return(<<>>, ErrNoIface)
    /\ UNCHANGED <<callVars, exitCode, timeout, results, running, request>>
    /\ UNCHANGED <<clockVars, listenerVars, sockVars>>

\* PingOverIface / GratuitousArpOverIface: validateIP, then the request.
\* PingOverIface first asks findIPInNetworkFromIface for the source IP.
InnerValidate(srcOk) ==
    /\ pc = "inner"
    /\ IF validateIP(ip) # NoErr
       THEN /\ pc' = "returned"
            /\ ret' = Return(<<>>, validateIP(ip))
            /\ UNCHANGED request
       ELSE IF op \in PingOps
       THEN IF srcOk
            THEN /\ request' = PingRequest(IfaceMac, LocalIP, ip)
                 /\ pc' = "init"
                 /\ UNCHANGED ret
            ELSE /\ pc' = "returned"
                 /\ ret' = Return(<<>>, ErrNoSrcIP)
                 /\ UNCHANGED request
       ELSE /\ request' = GratuitousRequest(IfaceMac, ip)
            /\ pc' = "init"
            /\ UNCHANGED ret
    /\ UNCHANGED <<callVars, exitCode, timeout, results, running>>
    /\ UNCHANGED <<clockVars, listenerVars, sockVars>>

\* sock, err := initialize(iface)
Initialize(ok) ==
    /\ pc = "init"
    /\ nInit' = nInit + 1
    /\ IF ok
       THEN /\ pc' = IF op \in PingOps THEN "opened" ELSE "gsend"
            /\ UNCHANGED ret
       ELSE /\ pc' = "returned"
            /\ ret' = Return(<<>>, ErrOpen)
    /\ UNCHANGED <<callVars, exitCode, timeout, results, running, request>>
    /\ UNCHANGED <<clockVars, listenerVars>>
    /\ UNCHANGED <<sent, sendErr, nRecv, nDeinit, sockErr>>

\* results := make([]Result, 0); running := true; go func() {...}(); the
\* select loop is entered and arms its first time.After(timeout).
Spawn ==
    /\ pc = "opened"
    /\ pc' = "select"
    /\ running' = TRUE
    /\ results' = <<>>
    /\ lpc' = "send"
    /\ timer' = timeout
    /\ firstPeriod' = timeout
    /\ now' = 0
    /\ UNCHANGED <<callVars, ret, exitCode, timeout, request>>
    /\ UNCHANGED <<msg, response, sendTime, matched, sockVars>>

\* ---------------------------------------------------- the listening goroutine
\* os.Exit ends the process and every goroutine with it.
Alive == pc # "exited"

\* if response.IsResponseOf(request)
CorrelatedAlways(frame, req) == TRUE
Correlated(frame, req) == IsResponseOf(frame, req)

\* where the listener goes once its PingResult has been received: after an
\* error out of the function (the send error skips the loop, the receive
\* error returns), after a reply back to `for running`
AfterHandoverLoop(pingResult) == "loop"
AfterHandover(pingResult) ==
    IF pingResult.err # NoErr THEN "exit" ELSE "loop"

\* sock.deinitialize(), counted
deinitializeTwice(n) == n + 2
deinitialize(n) == n + 1

\* sendTime, err := sock.send(request); on error the PingResult carrying it
\* is sent on pingResultChan.  A send that blocks is this step not taken.
ListenerSend(ok) ==
    /\ Alive
    /\ lpc = "send"
    /\ sent' = Append(sent, request)
    /\ sendTime' = now
    /\ IF ok
       THEN /\ sendErr' = NoErr
            /\ lpc' = "loop"
            /\ UNCHANGED <<msg, sockErr>>
       ELSE /\ sendErr' = ErrSend
            /\ sockErr' = ErrSend
            /\ msg' = PingResult(NilMac, 0, ErrSend)
            /\ lpc' = "chanSend"
    /\ UNCHANGED <<mainVars, callVars, exitCode, timeout, request, clockVars>>
    /\ UNCHANGED <<response, matched, nInit, nRecv, nDeinit>>

\* `for running`: the flag is read without synchronisation, so once the
\* calling flow has cleared it the listener reads either value.
ObservedRunning == IF running THEN {TRUE} ELSE {TRUE, FALSE}

ListenerLoop(seen) ==
    /\ Alive
    /\ lpc = "loop"
    /\ seen \in ObservedRunning
    /\ IF seen
       THEN /\ lpc' = "receive"
            /\ nRecv' = nRecv + 1
       ELSE /\ lpc' = "exit"
            /\ UNCHANGED nRecv
    /\ response' = NoFrame
    /\ UNCHANGED <<mainVars, callVars, exitCode, timeout, request, clockVars>>
    /\ UNCHANGED <<msg, sendTime, matched, sent, sendErr, nInit, nDeinit, sockErr>>

\* sock.receive() returns a frame: a response to the request becomes a
\* PingResult to hand over, anything else is ignored.
ListenerReceive(frame) ==
    /\ Alive
    /\ lpc = "receive"
    /\ nRecv <= MaxFrames
    /\ response' = frame
    /\ IF Correlated(frame, request)
       THEN /\ msg' = PingResult(SenderMac(frame), now - sendTime, NoErr)
            /\ matched' = Append(matched, msg')
            /\ lpc' = "chanSend"
       ELSE /\ lpc' = "loop"
            /\ UNCHANGED <<msg, matched>>
    /\ UNCHANGED <<mainVars, callVars, exitCode, timeout, request, clockVars>>
    /\ UNCHANGED <<sendTime, sockVars>>

\* sock.receive() returns an error
ListenerReceiveError ==
    /\ Alive
    /\ lpc = "receive"
    /\ nRecv <= MaxFrames
    /\ sockErr' = ErrReceive
    /\ msg' = PingResult(NilMac, 0, ErrReceive)
    /\ response' = NoFrame
    /\ lpc' = "chanSend"
    /\ UNCHANGED <<mainVars, callVars, exitCode, timeout, request, clockVars>>
    /\ UNCHANGED <<sendTime, matched, sent, sendErr, nInit, nRecv, nDeinit>>

\* the goroutine returns: defer sock.deinitialize()
ListenerExit ==
    /\ Alive
    /\ lpc = "exit"
    /\ lpc' = "done"
    /\ nDeinit' = deinitialize(nDeinit)
    /\ UNCHANGED <<mainVars, callVars, exitCode, timeout, request, clockVars>>
    /\ UNCHANGED <<msg, response, sendTime, matched, sent, sendErr, nInit, nRecv, sockErr>>

\* ------------------------------------------------------------ the select loop
\* case pingResult := <-pingResultChan: the rendezvous with the listener's
\* channel send.  The result is appended, the listener goes on (to the end
\* of the function after an error, back to `for running` after a reply),
\* and the next iteration of the loop arms a new time.After(timeout).
MainReceive ==
    /\ pc = "select"
    /\ lpc = "chanSend"
    /\ results' = AppendResult(results, msg)
    /\ lpc' = AfterHandover(msg)
    /\ msg' = NoMsg
    /\ timer' = timeout
    /\ UNCHANGED <<pc, ret, running, callVars, exitCode, timeout, request>>
    /\ UNCHANGED <<now, firstPeriod, response, sendTime, matched, sockVars>>

\* case <-time.After(timeout): ErrTimeout without results, otherwise
\* break, running = false and the results.
MainTimeout ==
    /\ pc = "select"
    /\ TimerFired(timer)
    /\ ret' = TimeoutReturn(results)
    /\ running' = IF Len(results) = 0 THEN running ELSE FALSE
    /\ pc' = "returned"
    /\ UNCHANGED <<results, callVars, exitCode, timeout, request>>
    /\ UNCHANGED <<clockVars, listenerVars, sockVars>>

\* One clock tick while the calling flow waits in the select; a case of the
\* select that is ready (a fired timer, a PingResult offered on the channel)
\* is served before time moves on.
Tick ==
    /\ pc = "select"
    /\ timer > 0
    /\ lpc # "chanSend"
    /\ timer' = timer - 1
    /\ now' = now + 1
    /\ UNCHANGED <<mainVars, callVars, exitCode, timeout, request, firstPeriod>>
    /\ UNCHANGED <<listenerVars, sockVars>>

\* ------------------------------------------------------ GratuitousArpOverIface
\* defer sock.deinitialize(); _, err = sock.send(request); return err
GratuitousSend(ok) ==
    /\ pc = "gsend"
    /\ sent' = Append(sent, request)
    /\ sendErr' = IF ok THEN NoErr ELSE ErrSend
    /\ sockErr' = sendErr'
    /\ nDeinit' = deinitialize(nDeinit)
    /\ ret' = GratuitousReturn(sendErr')
    /\ pc' = "returned"
    /\ UNCHANGED <<results, running, callVars, exitCode, timeout, request>>
    /\ UNCHANGED <<clockVars, listenerVars, nInit, nRecv>>

\* ------------------------------------------------------------- cmd/arping exit
\* ErrTimeout exits 1, any other error 2, otherwise 0.
CliExit ==
    /\ pc = "returned"
    /\ caller = "cli"
    /\ exitCode' = <<ExitCode(ret.err)>>
    /\ pc' = "exited"
    /\ UNCHANGED <<ret, results, running, callVars, timeout, request>>
    /\ UNCHANGED <<clockVars, listenerVars, sockVars>>

Next ==
    \/ \E o \in Ops, a \in IPs : Call(o, a)
    \/ \E help \in BOOLEAN, nargs \in 0..2, gratuitous \in BOOLEAN,
          ifaceGiven \in BOOLEAN, t \in Timeouts, a \in ParsedIPs :
            CliMain(help, nargs, gratuitous, ifaceGiven, t, a)
    \/ \E t \in Timeouts : SetTimeout(t)
    \/ WrapperValidate
    \/ \E ok \in BOOLEAN : ResolveIface(ok)
    \/ \E srcOk \in BOOLEAN : InnerValidate(srcOk)
    \/ \E ok \in BOOLEAN : Initialize(ok)
    \/ Spawn
    \/ \E ok \in BOOLEAN : ListenerSend(ok)
    \/ \E seen \in BOOLEAN : ListenerLoop(seen)
    \/ \E frame \in Frames : ListenerReceive(frame)
    \/ ListenerReceiveError
    \/ ListenerExit
    \/ MainReceive
    \/ MainTimeout
    \/ Tick
    \/ \E ok \in BOOLEAN : GratuitousSend(ok)
    \/ CliExit

Spec == Init /\ [][Next]_vars

\* The Go scheduler runs the calling flow whenever it can take a step and
\* time does not stop; nothing is assumed of the listener or the socket.
FairSpec ==
    /\ Spec
    /\ WF_vars(Spawn)
    /\ WF_vars(Tick)
    /\ WF_vars(MainReceive \/ MainTimeout)

TypeOK ==
    /\ pc \in {"idle", "wrapper", "resolve", "inner", "init", "opened",
               "select", "gsend", "returned", "exited"}
    /\ lpc \in {"none", "send", "loop", "receive", "chanSend", "exit", "done"}
    /\ op \in Ops
    /\ timeout \in Timeouts
    /\ \E t \in Timeouts : timer \in 0..t
    /\ exitCode \in {<<>>, <<0>>, <<1>>, <<2>>}

\* ------------------------------------------------------------------ claims
Returned == pc \in {"returned", "exited"}
\* PingOverIface has returned from its select loop (the transport opened)
PingReturned == Returned /\ lpc # "none"
\* the correlated replies the listener has handed over on pingResultChan
DeliveredReplies ==
    IF lpc = "chanSend" /\ msg.err = NoErr
    THEN SubSeq(matched, 1, Len(matched) - 1)
    ELSE matched
ReplyEntries(rs) == SelectSeq(rs, LAMBDA r : r.HwAddr # NilMac)
ErrorEntries(rs) == SelectSeq(rs, LAMBDA r : r.HwAddr = NilMac)
InvalidIPs == {NilIP, IP6, BadIP}

\* C1: when sock.send or sock.receive has returned an error, PingOverIface
\* returns a non-nil error, never a nil error with a result sequence.
C1_TransportErrorReturned ==
    [][(pc = "select" /\ pc' = "returned" /\ sockErr # NoErr)
          => ret'.err # NoErr]_vars

\* C2: if no correlated reply was handed over before the timeout fired,
\* PingOverIface returns ErrTimeout and no results, whatever the transport did.
C2_TimeoutEmpty ==
    (PingReturned /\ Len(DeliveredReplies) = 0)
        => ret = Return(<<>>, ErrTimeout)

\* C3: when PingOverIface has returned after a successful initialize,
\* sock.deinitialize has been invoked exactly once.
C3_DeinitializedAtReturn ==
    (pc = "returned" /\ lpc # "none") => nDeinit = 1

\* C4: PingOverIface returns no later than one configured timeout period
\* after it began waiting, however many results arrive in the window
\* (stated for invocations whose timeout nobody changed and whose transport
\* did not fail).
C4_SingleDeadline ==
    (PingReturned /\ timeout = firstPeriod /\ sockErr = NoErr)
        => now <= firstPeriod

C6_ArrivalOrder ==
    LET delivered == [i \in 1..Len(DeliveredReplies) |->
                        Result(DeliveredReplies[i].mac, DeliveredReplies[i].duration)]
    IN  lpc # "none" =>
          /\ ReplyEntries(results) = delivered
          /\ (PingReturned /\ ret.err = NoErr) =>
                /\ ReplyEntries(ret.results) = delivered
                /\ (Len(ErrorEntries(ret.results)) = 0 => ret.results = delivered)
\* two replies from different senders were returned in arrival order
C6_Witness ==
    /\ pc = "returned"
    /\ ret.err = NoErr
    /\ Len(ret.results) = 2
    /\ ret.results[1].HwAddr = "m2"
    /\ ret.results[2].HwAddr = "m1"
    /\ matched[1].mac = "m2"

\* C7: once in the select loop PingOverIface leaves it only through the
\* timeout branch, with ErrTimeout when no result was collected and with the
\* accumulated results otherwise; receiving a result does not end the call.
C7_ReturnsOnlyOnTimeout ==
    [][(pc = "select" /\ pc' # "select") =>
          /\ timer = 0
          /\ pc' = "returned"
          /\ ret' = IF Len(results) = 0
                    THEN Return(<<>>, ErrTimeout)
                    ELSE Return(results, NoErr)]_vars
\* the call went on after its first result and returned two at the timeout
C7_Witness ==
    /\ pc = "returned"
    /\ ret.err = NoErr
    /\ Len(ret.results) = 2
    /\ now > 0

\* C8: an address that is not a valid IPv4 address makes every public
\* operation return the validation error with no initialize, send or receive
\* and no listener.
C8_InvalidIPRejectedBeforeIO ==
    (ip \in InvalidIPs) =>
        /\ nInit = 0
        /\ sent = <<>>
        /\ nRecv = 0
        /\ lpc = "none"
        /\ pc \notin {"init", "opened", "select", "gsend"}
        /\ ret # NoReturn => ret.err = ErrInvalidIP
C8_Witness ==
    /\ pc = "returned"
    /\ op = "GratuitousArpOverIface"
    /\ ip = IP6
    /\ ret.err = ErrInvalidIP

\* C9: cmd/arping exits 0 only when the target answered or the gratuitous
\* send succeeded, 1 exactly on ErrTimeout, 2 on every other error, a
\* transport send or receive failure included.
C9_ExitCodes ==
    pc = "exited" =>
        /\ exitCode = <<0>> =>
              \/ op \in GratuitousOps /\ Len(sent) = 1 /\ sendErr = NoErr
              \/ op \in PingOps /\ Len(DeliveredReplies) > 0
        /\ exitCode = <<1>> <=> ret.err = ErrTimeout
        /\ (ret = NoReturn \/ ret.err \notin {NoErr, ErrTimeout}) => exitCode = <<2>>
        /\ Len(ErrorEntries(results)) > 0 => exitCode = <<2>>

\* C10: GratuitousArpOverIface on an opened transport sends exactly one
\* request with sender and target protocol address srcIP to the broadcast
\* MAC, never receives, starts no listener and returns what the send returned.
C10_GratuitousOneShot ==
    op \in GratuitousOps =>
        /\ nRecv = 0
        /\ lpc = "none"
        /\ Len(sent) <= 1
        /\ (Returned /\ nInit = 1 /\ ret.err # ErrOpen) =>
              /\ Len(sent) = 1
              /\ sent[1].oper = "request"
              /\ sent[1].spa = To4(ip).addr
              /\ sent[1].tpa = To4(ip).addr
              /\ sent[1].ethDst = BroadcastMac
              /\ ret.err = sendErr
C10_Witness ==
    /\ pc = "returned"
    /\ op = "GratuitousArpOverIface"
    /\ Len(sent) = 1
    /\ ret.err = ErrSend

\* C11: on every timeout expiry, with or without results, the running flag
\* has been cleared when PingOverIface returns.
C11_StopSignalledAtReturn ==
    PingReturned => running = FALSE

\* C12: a listener that got an error from sock.send or sock.receive is never
\* left offering it on pingResultChan to a calling flow that has returned
\* (it would stay blocked there and never deinitialize).
C12_ErrorHandoverNeverStuck ==
    (lpc = "chanSend" /\ msg.err # NoErr) => pc = "select"

\* C13: a listener that correlated a reply is never left offering it on
\* pingResultChan to a calling flow that has returned (it would never
\* terminate).
C13_ReplyHandoverNeverStuck ==
    (lpc = "chanSend" /\ msg.err = NoErr) => pc = "select"

\* C14: the accumulated results are exactly the correlated replies handed
\* over (sender hardware address, receive time minus send time), one entry
\* each, and no entry stands for anything else.
C14_EntriesAreReplies ==
    lpc # "none" =>
        results = [i \in 1..Len(DeliveredReplies) |->
                     Result(DeliveredReplies[i].mac, DeliveredReplies[i].duration)]

\* C15: a received frame that is no response to the request is discarded:
\* nothing is offered on the channel, no result is added, no error is
\* raised, nothing is returned or released, and the listener is back at
\* `for running`.
C15_NonMatchingDiscarded ==
    [][(lpc = "receive" /\ response' \in Frames
           /\ ~IsResponseOf(response', request))
          => /\ lpc' = "loop"
             /\ msg' = msg
             /\ matched' = matched
             /\ results' = results
             /\ sockErr' = sockErr
             /\ nDeinit' = nDeinit
             /\ <<pc, ret, running, timer>>' = <<pc, ret, running, timer>>]_vars
\* a reply addressed to this host, but not from the target, was dropped
\* while the call was waiting
C15_Witness ==
    /\ pc = "select"
    /\ lpc = "loop"
    /\ response \in Frames
    /\ response.oper = "reply"
    /\ response.tpa = request.spa
    /\ response.spa # request.tpa
    /\ results = <<>>

\* C16: once the calling flow has cleared the running flag the listener
\* starts no new sock.receive call.
C16_NoReceiveAfterStop ==
    [][(PingReturned /\ ~running) => nRecv' = nRecv]_vars

\* C17: initialize is called at most once and sock.send at most once,
\* exactly once when the listener got past it; after a failed send the
\* listener never calls receive.
C17_NothingRetried ==
    /\ nInit <= 1
    /\ Len(sent) <= 1
    /\ (op \in PingOps /\ lpc \notin {"none", "send"}) => Len(sent) = 1
    /\ sendErr = ErrSend => nRecv = 0
\* the send failed, the error was handed over and the listener ended
C17_Witness ==
    /\ op \in PingOps
    /\ Returned
    /\ sendErr = ErrSend
    /\ lpc = "done"
    /\ nRecv = 0

\* C18: a SetTimeout made while PingOverIface is in flight does not change
\* the period it waits for: every timer it arms has the period configured
\* when it began to wait (stated for transports that did not fail).
C18_PeriodFixedAtCall ==
    (pc = "select" /\ sockErr = NoErr) => timer <= firstPeriod

\* C19: sock.deinitialize is invoked at most once, no sock.send or
\* sock.receive is started after it, and GratuitousArpOverIface has invoked
\* it exactly once when it returns from an opened transport.
C19_ReleasedOnceNoUseAfter ==
    /\ [](/\ nDeinit <= 1
          /\ (op \in GratuitousOps /\ Returned /\ nInit = 1 /\ ret.err # ErrOpen)
                => nDeinit = 1)
    /\ [][nDeinit >= 1 => (sent' = sent /\ nRecv' = nRecv)]_vars
\* a listener that sent, received and then released the socket
C19_Witness ==
    /\ op \in PingOps
    /\ lpc = "done"
    /\ nDeinit = 1
    /\ Len(sent) = 1
    /\ nRecv >= 1

\* C20: PingOverIface returns a nil error exactly with a non-empty result
\* sequence, and no results with any error.
C20_ReturnValuesConsistent ==
    (op \in PingOps /\ Returned /\ ret # NoReturn)
        => (ret.err = NoErr <=> Len(ret.results) > 0)
C20_Witness ==
    /\ op = "PingOverIfaceByName"
    /\ pc = "returned"
    /\ ret.err = NoErr
    /\ Len(ret.results) = 1
    /\ ret.results[1].HwAddr \in ReplyMacs

====
